---- MODULE Spec2Model ----
(***************************************************************************)
(* Model of the mitmproxy flow viewer: the application object (app.py),    *)
(* the flow filter (flows.py), the List screen (pages/flow_list.py) and    *)
(* the Detail screen (pages/flow_detail.py).                               *)
(*                                                                         *)
(* Conventions.  A Python str is a sequence of one-character strings.  An  *)
(* Optional value is a sequence of length at most one: None is << >> and   *)
(* a present value x is << x >>.  Python list indices and table rows are   *)
(* 0-based as in the source; the element at Python index i of a sequence s *)
(* is s[i + 1].                                                            *)
(***************************************************************************)
EXTENDS Integers, Sequences, FiniteSets, TLC

\* ------------------------------------------------------------------ bounds
MaxFlows == 2

\* ------------------------------------------------------- optional values
None == << >>

Some(x) == << x >>

IsNone(o) == Len(o) = 0

\* ------------------------------------------------------------ str helpers
Whitespace == {" ", "\t"}

Quotes == {"'", "\""}

LowerChar(c) ==
    CASE c = "C" -> "c"
      [] c = "J" -> "j"
      [] c = "R" -> "r"
      [] c = "S" -> "s"
      [] c = "X" -> "x"
      [] c = "Z" -> "z"
      [] OTHER -> c

\* str.lower()
RECURSIVE Lower(_)
Lower(s) == IF Len(s) = 0 THEN << >> ELSE << LowerChar(Head(s)) >> \o Lower(Tail(s))

\* str.lstrip()
RECURSIVE LStrip(_)
LStrip(s) ==
    IF Len(s) > 0 /\ Head(s) \in Whitespace THEN LStrip(Tail(s)) ELSE s

\* str.rstrip()
RECURSIVE RStrip(_)
RStrip(s) ==
    IF Len(s) > 0 /\ s[Len(s)] \in Whitespace THEN RStrip(SubSeq(s, 1, Len(s) - 1)) ELSE s

\* str.strip()
Strip(s) == RStrip(LStrip(s))

\* needle in hay
Contains(needle, hay) ==
    \E i \in 0..(Len(hay) - Len(needle)) : SubSeq(hay, i + 1, i + Len(needle)) = needle

\* length of the leading run of non-whitespace characters
RECURSIVE WordLen(_)
WordLen(s) ==
    IF Len(s) = 0 \/ Head(s) \in Whitespace THEN 0 ELSE 1 + WordLen(Tail(s))

\* str.split(None, 1): at most two parts, split on the first whitespace run
Split1(s) ==
    LET t == LStrip(s)
        n == WordLen(t)
        rest == LStrip(SubSeq(t, n + 1, Len(t)))
    IN  IF Len(t) = 0 THEN << >>
        ELSE IF Len(rest) = 0 THEN << SubSeq(t, 1, n) >>
        ELSE << SubSeq(t, 1, n), rest >>

\* str(n) for a non-negative int
Digit(d) ==
    CASE d = 0 -> "0" [] d = 1 -> "1" [] d = 2 -> "2" [] d = 3 -> "3" [] d = 4 -> "4"
      [] d = 5 -> "5" [] d = 6 -> "6" [] d = 7 -> "7" [] d = 8 -> "8" [] d = 9 -> "9"

RECURSIVE Str(_)
Str(n) == IF n < 10 THEN << Digit(n) >> ELSE Str(n \div 10) \o << Digit(n % 10) >>

DigitValue(c) ==
    CASE c = "0" -> 0 [] c = "1" -> 1 [] c = "2" -> 2 [] c = "3" -> 3 [] c = "4" -> 4
      [] c = "5" -> 5 [] c = "6" -> 6 [] c = "7" -> 7 [] c = "8" -> 8 [] c = "9" -> 9
      [] OTHER -> -1

\* int(s) for a string of decimal digits; None stands for ValueError
RECURSIVE ParseInt(_)
ParseInt(s) ==
    IF Len(s) = 0 THEN None
    ELSE IF DigitValue(s[Len(s)]) < 0 THEN None
    ELSE IF Len(s) = 1 THEN Some(DigitValue(s[1]))
    ELSE LET hi == ParseInt(SubSeq(s, 1, Len(s) - 1))
         IN  IF IsNone(hi) THEN None ELSE Some(hi[1] * 10 + DigitValue(s[Len(s)]))

\* Python truthiness of an Optional[str]
Truthy(o) == ~IsNone(o) /\ Len(o[1]) > 0

\* ------------------------------------------------------------------ flows
\* Content-Type header values and body texts that occur in the captures.
CtJson == << "x", "J", "s" >>

CtOther == << "x" >>

BodyA == << "a" >>

BodyB == << "b" >>

\* request / response records as consumed from the capture-decoding library
ReqJson ==
    [method |-> << "P" >>, ctype |-> Some(CtJson), text |-> Some(BodyA), raw |-> Some(<< 97 >>)]

ReqOther ==
    [method |-> << "G" >>, ctype |-> Some(CtOther), text |-> None, raw |-> Some(<< 98, 255 >>)]

ReqNoHeader ==
    [method |-> << "G" >>, ctype |-> None, text |-> None, raw |-> None]

Resp200 == [status |-> 200, text |-> Some(BodyB), raw |-> Some(<< 98 >>)]

\* the (request, response) shapes a captured flow can have
FlowKinds ==
    { [request |-> Some(ReqJson), response |-> Some(Resp200)],
      [request |-> Some(ReqOther), response |-> None],
      [request |-> Some(ReqNoHeader), response |-> Some(Resp200)],
      [request |-> None, response |-> Some(Resp200)] }

\* a capture: flows in capture order, each carrying its ordinal as identity
MkFlows(kinds) ==
    [i \in 1..Len(kinds) |->
        [id |-> i, request |-> kinds[i].request, response |-> kinds[i].response]]

\* all captures of at most n flows whose flows have the given shapes
CapturesOf(kinds, n) == { MkFlows(k) : k \in UNION { [1..m -> kinds] : m \in 0..n } }

\* the shapes of the flows in the captures the viewer is run on
UiKinds ==
    << [request |-> Some(ReqJson), response |-> Some(Resp200)],
       [request |-> Some(ReqOther), response |-> None],
       [request |-> None, response |-> Some(Resp200)] >>

\* the captures the viewer is run on: at most MaxFlows flows whose shapes
\* follow one another in the order of UiKinds, starting at any of them
Captures ==
    { MkFlows([i \in 1..n |-> UiKinds[((k + i - 2) % Len(UiKinds)) + 1]]) :
        n \in 0..MaxFlows, k \in 1..Len(UiKinds) }

\* the loop body comparing the header as it is, without lower-casing it
FlowMatchesCaseSensitive(flow, needle) ==
    /\ ~IsNone(flow.request)
    /\ Truthy(flow.request[1].ctype)
    /\ Contains(needle, flow.request[1].ctype[1])

\* filter_flows_by_content_type's loop body: does the flow pass the needle
FlowMatches(flow, needle) ==
    /\ ~IsNone(flow.request)
    /\ Truthy(flow.request[1].ctype)
    /\ Contains(needle, Lower(flow.request[1].ctype[1]))

RECURSIVE FilterLoop(_, _)
FilterLoop(flows, needle) ==
    IF Len(flows) = 0 THEN << >>
    ELSE (IF FlowMatches(Head(flows), needle) THEN << Head(flows) >> ELSE << >>)
         \o FilterLoop(Tail(flows), needle)

\* flows.py filter_flows_by_content_type(flows, content_type)
filter_flows_by_content_type(flows, content_type) ==
    IF ~Truthy(content_type) THEN flows
    ELSE FilterLoop(flows, Lower(content_type[1]))

\* FlowViewerApp._apply_content_type_filter, given the app's fields
apply_content_type_filter(allFlows, ctFilter) ==
    IF Truthy(ctFilter) THEN filter_flows_by_content_type(allFlows, ctFilter)
    ELSE allFlows

\* ------------------------------------------------------------------ state
VARIABLES
    app,      \* FlowViewerApp: all_flows, content_type_filter, filtered_flows, phase
    stack,    \* the screens pushed by the application, bottom first
    lst,      \* FlowListScreen fields
    table,    \* the List screen's DataTable: rows, cursor coordinate, scroll offset
    det,      \* FlowDetailScreen fields and the content of its widgets
    term,     \* terminal height (Screen.size.height)
    out,      \* bell rung by the last event, clipboard content
    call      \* a direct call of filter_flows_by_content_type: arguments, result

vars == << app, stack, lst, table, det, term, out, call >>

\* terminal heights the screen can have
Heights == {5, 8}

\* number of table columns added by FlowListScreen.on_mount
NumColumns == 5

Min(a, b) == IF a < b THEN a ELSE b

Max(a, b) == IF a > b THEN a ELSE b

\* a status message with an interpolated argument (an f-string)
Msg(text, arg) == [text |-> text, arg |-> arg]

\* `message or None`
OrNone(message) ==
    IF message.text = "" /\ Len(message.arg) = 0 THEN None ELSE Some(message)

\* the DataTable before any row is added
EmptyTable == [rows |-> << >>, cursor_row |-> 0, cursor_column |-> 0, scroll_y |-> 0]

\* FlowListScreen.__init__
NewListScreen(flows, ctFilter) ==
    [flows |-> flows,
     content_type_filter |-> ctFilter,
     status_message |-> None,
     command_active |-> FALSE,
     command_value |-> << >>,
     status_text |-> << >>]

\* value of `det` while no Detail screen exists
NoDetail ==
    [flow |-> << >>, position |-> 0, total |-> 0, active_panel |-> "request",
     status_message |-> None, command_active |-> FALSE, command_value |-> << >>,
     status_text |-> << >>, request_static |-> << >>, response_static |-> << >>,
     request_display |-> "none", response_display |-> "none", focus |-> "none"]

\* value of `lst` before the List screen is constructed
NoList == NewListScreen(<< >>, None)

\* the --content-type option values given on the command line
InitFilters == { None, Some(<< "J", "S" >>) }

\* value of `call` while the function is not called on its own
NoCall == [flows |-> << >>, content_type |-> None, result |-> None]

\* FlowViewerApp.__init__, in a terminal of one of the heights of Heights
Init ==
    /\ \E flows \in Captures, f \in InitFilters :
          app = [all_flows |-> flows, content_type_filter |-> f,
                 filtered_flows |-> << >>, phase |-> "init"]
    /\ stack = << >>
    /\ lst = NoList
    /\ table = EmptyTable
    /\ det = NoDetail
    /\ term \in Heights
    /\ out = [bell |-> FALSE, clipboard |-> None]
    /\ call = NoCall

\* ---------------------------------------------------- List screen: table
\* one table row as built by _populate_table's add_row call
TableRow(index, flow) ==
    [key |-> Str(index - 1),
     cells |-> << Str(index),
                  IF IsNone(flow.request) THEN << "-" >> ELSE flow.request[1].method,
                  IF IsNone(flow.response) THEN << "-" >> ELSE Str(flow.response[1].status) >>]

\* a re-population that leaves the cursor where table.clear() put it
populate_table_reset(tbl, flows) ==
    [EmptyTable EXCEPT !.rows = [i \in 1..Len(flows) |-> TableRow(i, flows[i])]]

\* FlowListScreen._populate_table
populate_table(tbl, flows) ==
    LET previous_row == IF Len(tbl.rows) > 0 THEN tbl.cursor_row ELSE 0
        previous_column == IF Len(tbl.rows) > 0 THEN tbl.cursor_column ELSE 0
        rows == [i \in 1..Len(flows) |-> TableRow(i, flows[i])]
        column_limit == NumColumns - 1
    IN  IF Len(rows) > 0
        THEN [rows |-> rows,
              cursor_row |-> Min(previous_row, Len(rows) - 1),
              cursor_column |-> Min(previous_column, Max(0, column_limit)),
              scroll_y |-> 0]
        ELSE EmptyTable

\* FlowListScreen._update_status_bar: the text handed to the status bar
list_status_text(l) ==
    << Len(l.flows),
       IF Truthy(l.content_type_filter) THEN l.content_type_filter ELSE None,
       Truthy(l.content_type_filter) /\ Len(l.flows) = 0,
       l.status_message >>

update_list_status_bar(l) == [l EXCEPT !.status_text = list_status_text(l)]

\* FlowListScreen._set_status_message
list_set_status_message(l, message) ==
    update_list_status_bar([l EXCEPT !.status_message = OrNone(message)])

\* FlowViewerApp.on_mount followed by FlowListScreen.on_mount
Mount ==
    /\ app.phase = "init"
    /\ LET filtered == apply_content_type_filter(app.all_flows, app.content_type_filter)
           screen == NewListScreen(filtered, app.content_type_filter)
       IN  /\ app' = [app EXCEPT !.filtered_flows = filtered, !.phase = "running"]
           /\ stack' = << "List" >>
           /\ table' = populate_table(EmptyTable, screen.flows)
           /\ lst' = update_list_status_bar(screen)
    /\ out' = [out EXCEPT !.bell = FALSE]
    /\ UNCHANGED << det, term, call >>

ListActive == app.phase = "running" /\ Len(stack) > 0 /\ stack[Len(stack)] = "List"

DetailActive == app.phase = "running" /\ Len(stack) > 0 /\ stack[Len(stack)] = "Detail"

\* --------------------------------------------- List screen: cursor moves
\* FlowListScreen._estimate_visible_rows
estimate_visible_rows(height) == Max(1, height - 4)

\* a cursor move clamped at the top only
move_cursor_unclamped(tbl, offset) ==
    IF Len(tbl.rows) = 0 THEN tbl
    ELSE [tbl EXCEPT !.cursor_row = Max(0, tbl.cursor_row + offset)]

\* FlowListScreen._move_cursor
move_cursor(tbl, offset) ==
    IF Len(tbl.rows) = 0 THEN tbl
    ELSE [tbl EXCEPT !.cursor_row = Max(0, Min(tbl.cursor_row + offset, Len(tbl.rows) - 1))]

\* a page move of floor(visible_rows * |fraction|) rows, which can be none
page_move_floor(tbl, height, num, den) ==
    IF Len(tbl.rows) = 0 THEN tbl
    ELSE LET visible_rows == Min(Len(tbl.rows), estimate_visible_rows(height))
             absnum == IF num < 0 THEN -num ELSE num
             direction == IF num > 0 THEN 1 ELSE -1
         IN  move_cursor(tbl, ((visible_rows * absnum) \div den) * direction)

\* FlowListScreen._page_move; the fraction is num / den
page_move(tbl, height, num, den) ==
    IF Len(tbl.rows) = 0 THEN tbl
    ELSE LET visible_rows == Min(Len(tbl.rows), estimate_visible_rows(height))
             absnum == IF num < 0 THEN -num ELSE num
             rows == Max(1, (visible_rows * absnum) \div den)
             direction == IF num > 0 THEN 1 ELSE -1
         IN  move_cursor(tbl, rows * direction)

\* bounds whose bottom is not cut at the last row
visible_bounds_unclamped(tbl, height) ==
    LET rc == Len(tbl.rows)
        top == IF rc > 0 THEN Max(0, Min(tbl.scroll_y, rc - 1)) ELSE 0
    IN  << top, top + Max(0, estimate_visible_rows(height) - 1) >>

\* FlowListScreen._visible_bounds: << top, bottom >>
visible_bounds(tbl, height) ==
    LET rc == Len(tbl.rows)
        top == IF rc > 0 THEN Max(0, Min(tbl.scroll_y, rc - 1)) ELSE 0
        visible == Min(rc, estimate_visible_rows(height))
        bottom == IF rc > 0 THEN Min(rc - 1, top + Max(0, visible - 1)) ELSE 0
    IN  << top, bottom >>

\* scroll offsets the table widget can take for its current rows
ScrollRange(tbl) == 0..Max(0, Len(tbl.rows) - 1)

\* a key handled by the List screen that only touches the table
ListKey(newTable) ==
    /\ ListActive
    /\ table' = newTable
    /\ out' = [out EXCEPT !.bell = FALSE]
    /\ UNCHANGED << app, stack, lst, det, term, call >>

\* action_move_down (j)
MoveDown == ListKey(move_cursor(table, 1))

\* action_move_up (k)
MoveUp == ListKey(move_cursor(table, -1))

\* action_half_page_down (d)
HalfPageDown == ListKey(page_move(table, term, 1, 2))

\* action_half_page_up (u)
HalfPageUp == ListKey(page_move(table, term, -1, 2))

\* action_jump_top (g)
JumpTop ==
    ListKey(IF Len(table.rows) > 0 THEN [table EXCEPT !.cursor_row = 0] ELSE table)

\* action_jump_bottom (G)
JumpBottom ==
    ListKey(IF Len(table.rows) > 0
            THEN [table EXCEPT !.cursor_row = Len(table.rows) - 1] ELSE table)

\* action_jump_screen_top (H); the scroll position the widget ends at after
\* _scroll_table_to_row is the widget's choice
JumpScreenTop ==
    \E y \in ScrollRange(table) :
        ListKey(IF Len(table.rows) = 0 THEN table
                ELSE [table EXCEPT !.cursor_row = visible_bounds(table, term)[1],
                                   !.scroll_y = y])

\* action_jump_screen_bottom (L)
JumpScreenBottom ==
    \E y \in ScrollRange(table) :
        ListKey(IF Len(table.rows) = 0 THEN table
                ELSE [table EXCEPT !.cursor_row = visible_bounds(table, term)[2],
                                   !.scroll_y = y])

\* the table widget scrolls (mouse wheel, or bringing the cursor into view)
TableScrolled ==
    /\ ListActive
    /\ \E y \in ScrollRange(table) : table' = [table EXCEPT !.scroll_y = y]
    /\ UNCHANGED << app, stack, lst, det, term, out, call >>

\* the terminal is resized; the height is read by the List screen only
Resize ==
    /\ ListActive
    /\ \E h \in Heights : term' = h
    /\ UNCHANGED << app, stack, lst, table, det, out, call >>

\* q on either screen: app.quit ends the process; its screens and widgets
\* are gone with it
Quit ==
    /\ app.phase = "running"
    /\ app' = [app EXCEPT !.phase = "quit"]
    /\ stack' = << >>
    /\ lst' = NoList
    /\ table' = EmptyTable
    /\ det' = NoDetail
    /\ out' = [out EXCEPT !.bell = FALSE]
    /\ UNCHANGED << term, call >>

\* ------------------------------------------- List screen: command prompt
\* FlowListScreen._show_command_prompt(":") / FlowDetailScreen likewise
show_command_prompt(scr, initial) ==
    [scr EXCEPT !.command_active = TRUE, !.command_value = initial]

\* a prompt that is hidden with its buffer left as it was
hide_command_prompt_keeping(scr) == [scr EXCEPT !.command_active = FALSE]

\* FlowListScreen._hide_command_prompt / FlowDetailScreen likewise
hide_command_prompt(scr) ==
    [scr EXCEPT !.command_active = FALSE, !.command_value = << >>]

\* action_open_command (:)
ListOpenCommand ==
    /\ ListActive
    /\ lst' = IF lst.command_active THEN lst ELSE show_command_prompt(lst, << ":" >>)
    /\ out' = [out EXCEPT !.bell = FALSE]
    /\ UNCHANGED << app, stack, table, det, term, call >>

\* action_cancel_command (escape)
ListCancelCommand ==
    /\ ListActive
    /\ lst' = IF lst.command_active THEN hide_command_prompt(lst) ELSE lst
    /\ out' = [out EXCEPT !.bell = FALSE]
    /\ UNCHANGED << app, stack, table, det, term, call >>

\* ----------------------------------------------------- command language
wSet == << "s", "e", "t" >>

wCtype == << "c", "t", "y", "p", "e" >>

wCp == << "c", "p" >>

wReq == << "r", "e", "q" >>

wRequest == << "r", "e", "q", "u", "e", "s", "t" >>

wRes == << "r", "e", "s" >>

wResp == << "r", "e", "s", "p" >>

wResponse == << "r", "e", "s", "p", "o", "n", "s", "e" >>

\* the handlers below work on the bundle of everything an event can touch
Bundle ==
    [app |-> app, stack |-> stack, lst |-> lst, table |-> table, det |-> det, out |-> out]

\* App.bell()
ring_bell(st) == [st EXCEPT !.out.bell = TRUE]

\* App.copy_to_clipboard(body)
copy_to_clipboard(st, body) == [st EXCEPT !.out.clipboard = Some(body)]

\* bytes.decode("utf-8"), falling back to errors="replace"
RECURSIVE DecodeUtf8(_)
DecodeUtf8(bytes) ==
    IF Len(bytes) = 0 THEN << >>
    ELSE << CASE Head(bytes) = 97 -> "a"
              [] Head(bytes) = 98 -> "b"
              [] OTHER -> "?" >> \o DecodeUtf8(Tail(bytes))

\* _get_body_text(text_value, raw_content)
get_body_text(text_value, raw_content) ==
    IF Truthy(text_value) THEN text_value[1]
    ELSE IF ~IsNone(raw_content) /\ Len(raw_content[1]) > 0 THEN DecodeUtf8(raw_content[1])
    ELSE << >>

\* a parse that takes a leading colon for part of the command name
parse_command_keeping_colon(raw_command) ==
    LET command == Strip(raw_command)
        parts == Split1(command)
    IN  IF Len(command) = 0 THEN << >>
        ELSE << parts[1], IF Len(parts) > 1 THEN parts[2] ELSE << >> >>

\* the head of _handle_command shared by both screens:
\* << >> for "no command", else << name, remainder >>
parse_command(raw_command) ==
    LET stripped == Strip(raw_command)
        command == IF Len(stripped) > 0 /\ Head(stripped) = ":"
                   THEN LStrip(Tail(stripped)) ELSE stripped
        parts == Split1(command)
    IN  IF Len(command) = 0 THEN << >>
        ELSE << parts[1], IF Len(parts) > 1 THEN parts[2] ELSE << >> >>

\* an update that re-populates the table but keeps the screen's old flow list
update_flows_stale(st, flows, content_type_filter, status_message) ==
    LET l1 == [st.lst EXCEPT !.content_type_filter = content_type_filter]
        l2 == IF IsNone(status_message) THEN l1
              ELSE [l1 EXCEPT !.status_message = OrNone(status_message[1])]
    IN  [st EXCEPT !.table = populate_table(st.table, flows),
                   !.lst = update_list_status_bar(l2)]

\* FlowListScreen.update_flows
update_flows(st, flows, content_type_filter, status_message) ==
    LET l1 == [st.lst EXCEPT !.flows = flows, !.content_type_filter = content_type_filter]
        l2 == IF IsNone(status_message) THEN l1
              ELSE [l1 EXCEPT !.status_message = OrNone(status_message[1])]
    IN  [st EXCEPT !.table = populate_table(st.table, flows),
                   !.lst = update_list_status_bar(l2)]

\* `value.strip() if value and value.strip() else None`
normalize_filter(value) ==
    IF Truthy(value) /\ Len(Strip(value[1])) > 0 THEN Some(Strip(value[1])) ELSE None

\* re-filtering incrementally, from the current filtered view
set_content_type_filter_incremental(st, value, status_message) ==
    LET normalized == normalize_filter(value)
        filtered == apply_content_type_filter(st.app.filtered_flows, normalized)
        st1 == [st EXCEPT !.app.content_type_filter = normalized,
                          !.app.filtered_flows = filtered]
    IN  update_flows(st1, filtered, normalized, status_message)

\* a filter that is switched off when the value already active is set again
set_content_type_filter_toggling(st, value, status_message) ==
    LET requested == normalize_filter(value)
        normalized == IF requested = st.app.content_type_filter THEN None ELSE requested
        filtered == apply_content_type_filter(st.app.all_flows, normalized)
        st1 == [st EXCEPT !.app.content_type_filter = normalized,
                          !.app.filtered_flows = filtered]
    IN  update_flows(st1, filtered, normalized, status_message)

\* FlowViewerApp.set_content_type_filter(value, status_message=...)
set_content_type_filter(st, value, status_message) ==
    LET normalized == normalize_filter(value)
    IN  IF normalized = st.app.content_type_filter
        THEN IF ~IsNone(status_message)
             THEN update_flows(st, st.app.filtered_flows, st.app.content_type_filter,
                               status_message)
             ELSE st
        ELSE LET filtered == apply_content_type_filter(st.app.all_flows, normalized)
                 st1 == [st EXCEPT !.app.content_type_filter = normalized,
                                   !.app.filtered_flows = filtered]
             IN  update_flows(st1, filtered, normalized, status_message)

\* FlowListScreen._set_status_message on the bundle
list_status(st, message) == [st EXCEPT !.lst = list_set_status_message(st.lst, message)]

\* the value taken as typed, quotes included
strip_quotes_kept(value) == value

\* the quote stripping of _handle_set_command
strip_quotes(value) ==
    IF Len(value) >= 2 /\ value[1] = value[Len(value)] /\ value[1] \in Quotes
    THEN Strip(SubSeq(value, 2, Len(value) - 1))
    ELSE value

\* a `set` that takes any option name for ctype
handle_set_command_any_option(st, remainder0) ==
    LET remainder == Strip(remainder0)
        option_parts == Split1(remainder)
        value == strip_quotes(Strip(IF Len(option_parts) > 1 THEN option_parts[2] ELSE << >>))
    IN  IF Len(remainder) = 0
        THEN ring_bell(list_status(st, Msg("Usage: :set ctype <value>", << >>)))
        ELSE IF Len(value) = 0
        THEN set_content_type_filter(st, None, Some(Msg("Content-Type filter cleared", << >>)))
        ELSE set_content_type_filter(st, Some(value),
                                     Some(Msg("Content-Type filter set to ", value)))

\* FlowListScreen._handle_set_command
handle_set_command(st, remainder0) ==
    LET remainder == Strip(remainder0)
        option_parts == Split1(remainder)
        option == option_parts[1]
        value == strip_quotes(Strip(IF Len(option_parts) > 1 THEN option_parts[2] ELSE << >>))
    IN  IF Len(remainder) = 0
        THEN ring_bell(list_status(st, Msg("Usage: :set ctype <value>", << >>)))
        ELSE IF option # wCtype
        THEN ring_bell(list_status(st, Msg("Unknown option: ", option)))
        ELSE IF Len(value) = 0
        THEN set_content_type_filter(st, None, Some(Msg("Content-Type filter cleared", << >>)))
        ELSE set_content_type_filter(st, Some(value),
                                     Some(Msg("Content-Type filter set to ", value)))

\* a selection that always takes the first flow of the view
get_selected_flow_first(st) ==
    IF Len(st.table.rows) = 0 THEN None ELSE Some(st.lst.flows[1])

\* FlowListScreen._get_selected_flow: None or the flow under the cursor
get_selected_flow(st) ==
    IF Len(st.table.rows) = 0 THEN None
    ELSE IF 0 <= st.table.cursor_row /\ st.table.cursor_row < Len(st.lst.flows)
    THEN Some(st.lst.flows[st.table.cursor_row + 1])
    ELSE None

\* the body of _copy_flow_section once the flow is known, the same on both
\* screens: is the section missing, the body to copy, the status message
copy_section(flow, section) ==
    LET part == IF section = "request" THEN flow.request ELSE flow.response
        body == get_body_text(part[1].text, part[1].raw)
        label == IF section = "request" THEN "Request body" ELSE "Response body"
    IN  IF IsNone(part)
        THEN [missing |-> TRUE, body |-> << >>,
              message |-> Msg(IF section = "request"
                              THEN "Selected flow has no request to copy"
                              ELSE "Selected flow has no response to copy", << >>)]
        ELSE [missing |-> FALSE, body |-> body,
              message |-> IF Len(body) > 0
                          THEN Msg(label, << " copied to clipboard" >>)
                          ELSE Msg(label, << " copied to clipboard (empty)" >>)]

\* FlowListScreen._copy_flow_section
list_copy_flow_section(st, section) ==
    LET flow == get_selected_flow(st)
        copy == copy_section(flow[1], section)
    IN  IF IsNone(flow)
        THEN ring_bell(list_status(st, Msg("No flow selected to copy", << >>)))
        ELSE IF copy.missing THEN ring_bell(list_status(st, copy.message))
        ELSE list_status(copy_to_clipboard(st, copy.body), copy.message)

\* the alias table of FlowListScreen._handle_copy_command
ListCopyAliases(target) ==
    CASE target = wReq -> Some("request")
      [] target = wRequest -> Some("request")
      [] target = wResp -> Some("response")
      [] target = wResponse -> Some("response")
      [] OTHER -> None

\* FlowListScreen._handle_copy_command
list_handle_copy_command(st, remainder) ==
    LET target == Lower(Strip(remainder))
        resolved == ListCopyAliases(target)
    IN  IF Len(target) = 0
        THEN ring_bell(list_status(st, Msg("Usage: :cp request|response", << >>)))
        ELSE IF IsNone(resolved)
        THEN ring_bell(list_status(st, Msg("Unknown copy target: ", target)))
        ELSE list_copy_flow_section(st, resolved[1])

\* a handler that echoes the parsed command name in place of the entered text
list_handle_command_echoing_name(st, raw_command) ==
    LET parsed == parse_command(raw_command)
    IN  IF Len(parsed) = 0 THEN list_status(st, Msg("No command entered", << >>))
        ELSE IF parsed[1] = wSet THEN handle_set_command(st, parsed[2])
        ELSE IF parsed[1] = wCp THEN list_handle_copy_command(st, parsed[2])
        ELSE ring_bell(list_status(st, Msg("Unknown command: ", parsed[1])))

\* FlowListScreen._handle_command
list_handle_command(st, raw_command) ==
    LET parsed == parse_command(raw_command)
    IN  IF Len(parsed) = 0 THEN list_status(st, Msg("No command entered", << >>))
        ELSE IF parsed[1] = wSet THEN handle_set_command(st, parsed[2])
        ELSE IF parsed[1] = wCp THEN list_handle_copy_command(st, parsed[2])
        ELSE ring_bell(list_status(st, Msg("Unknown command: ", Strip(raw_command))))

\* the command lines typed in the model
SetJsLine == << ":" >> \o wSet \o << " " >> \o wCtype \o << " ", "j", "s" >>

SetQuotedXLine ==
    << ":" >> \o wSet \o << " ", " " >> \o wCtype \o << "\t", "'", " ", "X", "'", " " >>

SetClearLine == << ":" >> \o wSet \o << " " >> \o wCtype

SetQuotedEmptyLine == wSet \o << " " >> \o wCtype \o << " ", "\"", "\"" >>

SetCtypeLines == { SetJsLine, SetQuotedXLine, SetClearLine, SetQuotedEmptyLine }

BogusLine == << " ", ":", "z", "z", " " >>

CpReqLine == << ":" >> \o wCp \o << " " >> \o wReq

CpResLine == << ":" >> \o wCp \o << " " >> \o wRes

CpResponseLine == << ":" >> \o wCp \o << " ", "R", "e", "s", "p", "o", "n", "s", "e", " " >>

\* empty commands: a colon alone, a colon and blanks, blanks alone
EmptyLines == { << >>, << ":" >>, << " ", ":", " ", "\t" >>, << " ", " " >> }

SetOptionZLine == << ":" >> \o wSet \o << " ", "z", " ", "j" >>

SetOptionCtypeUpperLine ==
    << "s", "e", "t", "\t", "C", "t", "y", "p", "e", " ", " ", "j", "s", " " >>

\* `set` and `cp` with malformed arguments
MalformedLines ==
    { << ":" >> \o wSet,
      SetOptionZLine,
      SetOptionCtypeUpperLine,
      << ":" >> \o wCp \o << " " >>,
      << ":" >> \o wCp \o << " ", "Z", "z" >> }

CpRequestLine == << ":" >> \o wCp \o << "\t" >> \o wRequest

CpRespLine == << "c", "p", " ", "r", "e", "S", "p" >>

CopyLines == { CpReqLine, CpRequestLine, CpResLine, CpRespLine, CpResponseLine }

OtherLines == { << ":" >>, BogusLine, SetOptionZLine, CpReqLine }

\* lines submitted on the List screen
ListLines == SetCtypeLines \cup OtherLines

\* lines submitted on the Detail screen
DetailLines == { BogusLine, CpReqLine, CpResLine, SetJsLine }

\* the lines submitted on either screen when the command language is exercised
CommandLines ==
    EmptyLines \cup MalformedLines \cup CopyLines \cup { BogusLine, SetJsLine }

\* on_input_submitted of the List screen: Enter in the command prompt
ListSubmit(raw_value) ==
    /\ ListActive
    /\ lst.command_active
    /\ LET st == list_handle_command([Bundle EXCEPT !.lst = hide_command_prompt(lst),
                                                    !.out.bell = FALSE], raw_value)
       IN  /\ app' = st.app
           /\ lst' = st.lst
           /\ table' = st.table
           /\ out' = st.out
    /\ UNCHANGED << stack, det, term, call >>

\* ---------------------------------------------------------- Detail screen
\* default `limit` of _format_body_preview
BodyPreviewLimit == 2000

\* _format_body_preview(text)
format_body_preview(text) ==
    IF ~Truthy(text) THEN << >>
    ELSE LET stripped == Strip(text[1])
         IN  IF Len(stripped) > BodyPreviewLimit
             THEN SubSeq(stripped, 1, BodyPreviewLimit - 3) \o << ".", ".", "." >>
             ELSE stripped

\* FlowDetailScreen._build_request_detail: the renderable's content
build_request_detail(flow) ==
    IF IsNone(flow.request) THEN << "No request data available for this flow." >>
    ELSE << "Request", flow.request[1].method, flow.request[1].ctype,
            format_body_preview(flow.request[1].text) >>

\* FlowDetailScreen._build_response_detail
build_response_detail(flow) ==
    IF IsNone(flow.response) THEN << "No response data available for this flow." >>
    ELSE << "Response", Str(flow.response[1].status),
            format_body_preview(flow.response[1].text) >>

\* FlowDetailScreen._update_panel_visibility
update_panel_visibility(d) ==
    [d EXCEPT !.request_display = IF d.active_panel = "request" THEN "block" ELSE "none",
              !.response_display = IF d.active_panel = "response" THEN "block" ELSE "none",
              !.focus = IF d.active_panel = "request" THEN "request-container"
                        ELSE "response-container"]

\* FlowDetailScreen._update_status_bar: the text handed to the status bar
detail_status_text(d) == << d.position + 1, d.total, d.status_message >>

update_detail_status_bar(d) == [d EXCEPT !.status_text = detail_status_text(d)]

\* a Detail screen that always opens on the request panel
NewDetailScreen_request_first(flow, position, total) ==
    LET d == [flow |-> Some(flow), position |-> position, total |-> total,
              active_panel |-> "request",
              status_message |-> None, command_active |-> FALSE, command_value |-> << >>,
              status_text |-> << >>,
              request_static |-> build_request_detail(flow),
              response_static |-> build_response_detail(flow),
              request_display |-> "block", response_display |-> "block",
              focus |-> "none"]
    IN  update_detail_status_bar(update_panel_visibility(d))

\* FlowDetailScreen.__init__, compose and on_mount
NewDetailScreen(flow, position, total) ==
    LET d == [flow |-> Some(flow), position |-> position, total |-> total,
              active_panel |-> IF ~IsNone(flow.request) THEN "request"
                               ELSE IF ~IsNone(flow.response) THEN "response"
                               ELSE "request",
              status_message |-> None, command_active |-> FALSE, command_value |-> << >>,
              status_text |-> << >>,
              request_static |-> build_request_detail(flow),
              response_static |-> build_response_detail(flow),
              request_display |-> "block", response_display |-> "block",
              focus |-> "none"]
    IN  update_detail_status_bar(update_panel_visibility(d))

\* FlowListScreen.on_data_table_row_selected: Enter on the focused table
RowSelected ==
    /\ ListActive
    /\ ~lst.command_active
    /\ Len(table.rows) > 0
    /\ table.cursor_row + 1 \in 1..Len(table.rows)
    /\ LET index == ParseInt(table.rows[table.cursor_row + 1].key)
       IN  IF IsNone(index)
           THEN UNCHANGED << app, stack, det >>
           ELSE IF index[1] + 1 \in 1..Len(lst.flows)
           THEN /\ stack' = Append(stack, "Detail")
                /\ det' = NewDetailScreen(lst.flows[index[1] + 1], index[1], Len(lst.flows))
                /\ UNCHANGED app
           ELSE \* IndexError escapes the handler
                /\ app' = [app EXCEPT !.phase = "crashed"]
                /\ UNCHANGED << stack, det >>
    /\ out' = [out EXCEPT !.bell = FALSE]
    /\ UNCHANGED << lst, table, term, call >>

\* a back action that re-populates the List screen's table from scratch
GoBackRepopulating ==
    /\ DetailActive
    /\ IF det.command_active
       THEN /\ det' = hide_command_prompt(det)
            /\ UNCHANGED << stack, table >>
       ELSE /\ stack' = SubSeq(stack, 1, Len(stack) - 1)
            /\ det' = NoDetail
            /\ table' = populate_table(EmptyTable, lst.flows)
    /\ out' = [out EXCEPT !.bell = FALSE]
    /\ UNCHANGED << app, lst, term, call >>

\* a back action that pops the screen whether or not the prompt is open
GoBackPopping ==
    /\ DetailActive
    /\ stack' = SubSeq(stack, 1, Len(stack) - 1)
    /\ det' = NoDetail
    /\ out' = [out EXCEPT !.bell = FALSE]
    /\ UNCHANGED << app, lst, table, term, call >>

\* FlowDetailScreen.action_go_back (escape, backspace)
GoBack ==
    /\ DetailActive
    /\ IF det.command_active
       THEN /\ det' = hide_command_prompt(det)
            /\ UNCHANGED stack
       ELSE /\ stack' = SubSeq(stack, 1, Len(stack) - 1)
            /\ det' = NoDetail
    /\ out' = [out EXCEPT !.bell = FALSE]
    /\ UNCHANGED << app, lst, table, term, call >>

\* a panel switch that leaves the containers' visibility as it was
set_active_panel_no_visibility(d, panel) ==
    IF panel \notin {"request", "response"} THEN d
    ELSE IF d.active_panel = panel THEN d
    ELSE update_detail_status_bar([d EXCEPT !.active_panel = panel])

\* FlowDetailScreen._set_active_panel
set_active_panel(d, panel) ==
    IF panel \notin {"request", "response"} THEN d
    ELSE IF d.active_panel = panel THEN d
    ELSE update_detail_status_bar(update_panel_visibility([d EXCEPT !.active_panel = panel]))

\* a key handled by the Detail screen that only touches the Detail screen
DetailKey(newDet) ==
    /\ DetailActive
    /\ det' = newDet
    /\ out' = [out EXCEPT !.bell = FALSE]
    /\ UNCHANGED << app, stack, lst, table, term, call >>

\* action_cycle_detail_panel (tab)
CycleDetailPanel ==
    DetailKey(set_active_panel(det, IF det.active_panel = "request"
                                    THEN "response" ELSE "request"))

\* action_show_request_panel (h)
ShowRequestPanel == DetailKey(set_active_panel(det, "request"))

\* action_show_response_panel (l)
ShowResponsePanel == DetailKey(set_active_panel(det, "response"))

\* action_open_command (:) on the Detail screen
DetailOpenCommand ==
    DetailKey(IF det.command_active THEN det ELSE show_command_prompt(det, << ":" >>))

\* FlowDetailScreen._set_status_message on the bundle
detail_status(st, message) ==
    [st EXCEPT !.det = update_detail_status_bar(
                           [st.det EXCEPT !.status_message = OrNone(message)])]

\* FlowListScreen has no focus_flow method: the call in
\* FlowViewerApp.focus_flow_in_list raises AttributeError, which ends the app
focus_flow_in_list(st, index) == [st EXCEPT !.app.phase = "crashed"]

\* FlowDetailScreen._refresh_detail_content
refresh_detail_content(st) ==
    LET d == [st.det EXCEPT !.request_static = build_request_detail(st.det.flow[1]),
                            !.response_static = build_response_detail(st.det.flow[1])]
    IN  [st EXCEPT !.det = update_detail_status_bar(update_panel_visibility(d))]

\* navigation that opens the neighbouring flow in a new Detail screen
navigate_flow_pushing(st, offset) ==
    LET flows == st.app.filtered_flows
        new_index == st.det.position + offset
    IN  IF Len(flows) = 0 THEN ring_bell(st)
        ELSE IF new_index < 0 \/ new_index >= Len(flows) THEN ring_bell(st)
        ELSE [st EXCEPT !.stack = Append(st.stack, "Detail"),
                        !.det = NewDetailScreen(flows[new_index + 1], new_index, Len(flows))]

\* navigation that wraps around at either end of the view
navigate_flow_wrapping(st, offset) ==
    LET flows == st.app.filtered_flows
        new_index == (st.det.position + offset) % Len(flows)
        st1 == [st EXCEPT !.det.flow = Some(flows[new_index + 1]),
                          !.det.position = new_index,
                          !.det.total = Len(flows)]
    IN  IF Len(flows) = 0 THEN ring_bell(st)
        ELSE refresh_detail_content(detail_status(st1, Msg("", << >>)))

\* FlowDetailScreen._navigate_flow
navigate_flow(st, offset) ==
    LET flows == st.app.filtered_flows
        new_index == st.det.position + offset
        st1 == [st EXCEPT !.det.flow = Some(flows[new_index + 1]),
                          !.det.position = new_index,
                          !.det.total = Len(flows)]
        st2 == detail_status(st1, Msg("", << >>))
        st3 == focus_flow_in_list(st2, new_index)
    IN  IF Len(flows) = 0 THEN ring_bell(st)
        ELSE IF new_index < 0 \/ new_index >= Len(flows) THEN ring_bell(st)
        ELSE IF st3.app.phase = "crashed" THEN st3
        ELSE refresh_detail_content(st3)

\* an event of the Detail screen given as a bundle transformer; an exception
\* that escapes the handler ends the process, and its screens with it
DetailEvent(st) ==
    /\ DetailActive
    /\ app' = st.app
    /\ IF st.app.phase = "crashed"
       THEN /\ stack' = << >>
            /\ lst' = NoList
            /\ table' = EmptyTable
            /\ det' = NoDetail
            /\ out' = [out EXCEPT !.bell = FALSE]
       ELSE /\ stack' = st.stack
            /\ lst' = st.lst
            /\ table' = st.table
            /\ det' = st.det
            /\ out' = st.out
    /\ UNCHANGED << term, call >>

\* action_next_flow (j)
NextFlow == DetailEvent(navigate_flow([Bundle EXCEPT !.out.bell = FALSE], 1))

\* action_previous_flow (k)
PreviousFlow == DetailEvent(navigate_flow([Bundle EXCEPT !.out.bell = FALSE], -1))

\* the alias table of FlowDetailScreen._handle_copy_command
DetailCopyAliases(target) ==
    CASE target = wReq -> Some("request")
      [] target = wRequest -> Some("request")
      [] target = wRes -> Some("response")
      [] target = wResp -> Some("response")
      [] target = wResponse -> Some("response")
      [] OTHER -> None

\* FlowDetailScreen._copy_flow_section
detail_copy_flow_section(st, section) ==
    LET copy == copy_section(st.det.flow[1], section)
    IN  IF copy.missing THEN ring_bell(detail_status(st, copy.message))
        ELSE detail_status(copy_to_clipboard(st, copy.body), copy.message)

\* FlowDetailScreen._handle_copy_command
detail_handle_copy_command(st, remainder) ==
    LET target == Lower(Strip(remainder))
        resolved == DetailCopyAliases(target)
    IN  IF Len(target) = 0
        THEN ring_bell(detail_status(st, Msg("Usage: :cp request|response", << >>)))
        ELSE IF IsNone(resolved)
        THEN ring_bell(detail_status(st, Msg("Unknown copy target: ", target)))
        ELSE detail_copy_flow_section(st, resolved[1])

\* a Detail screen that also dispatches `set` to the List screen's handler
detail_handle_command_with_set(st, raw_command) ==
    LET parsed == parse_command(raw_command)
    IN  IF Len(parsed) = 0 THEN detail_status(st, Msg("No command entered", << >>))
        ELSE IF parsed[1] = wSet THEN handle_set_command(st, parsed[2])
        ELSE IF parsed[1] = wCp THEN detail_handle_copy_command(st, parsed[2])
        ELSE ring_bell(detail_status(st, Msg("Unknown command: ", Strip(raw_command))))

\* FlowDetailScreen._handle_command
detail_handle_command(st, raw_command) ==
    LET parsed == parse_command(raw_command)
    IN  IF Len(parsed) = 0 THEN detail_status(st, Msg("No command entered", << >>))
        ELSE IF parsed[1] = wCp THEN detail_handle_copy_command(st, parsed[2])
        ELSE ring_bell(detail_status(st, Msg("Unknown command: ", Strip(raw_command))))

\* on_input_submitted of the Detail screen
DetailSubmit(raw_value) ==
    /\ det.command_active
    /\ DetailEvent(detail_handle_command([Bundle EXCEPT !.det = hide_command_prompt(det),
                                                        !.out.bell = FALSE], raw_value))

Next ==
    \/ Mount
    \/ MoveDown \/ MoveUp \/ HalfPageDown \/ HalfPageUp
    \/ JumpTop \/ JumpBottom \/ JumpScreenTop \/ JumpScreenBottom
    \/ TableScrolled \/ Resize \/ Quit
    \/ ListOpenCommand \/ ListCancelCommand
    \/ \E raw \in ListLines : ListSubmit(raw)
    \/ RowSelected \/ GoBack
    \/ CycleDetailPanel \/ ShowRequestPanel \/ ShowResponsePanel
    \/ NextFlow \/ PreviousFlow
    \/ DetailOpenCommand
    \/ \E raw \in DetailLines : DetailSubmit(raw)

Spec == Init /\ [][Next]_vars

\* ------------------------------------------- the filter called on its own
MaxFilterFlows == 3

\* content_type arguments: absent, empty, and texts in either letter case
FilterTexts ==
    { None, Some(<< >>), Some(<< "j", "s" >>), Some(<< "J", "S" >>), Some(<< "X" >>),
      Some(<< "s", "x" >>), Some(<< "x", "j" >>) }

InitFilter ==
    /\ \E flows \in CapturesOf(FlowKinds, MaxFilterFlows), text \in FilterTexts :
          call = [flows |-> flows, content_type |-> text, result |-> None]
    /\ app = [all_flows |-> << >>, content_type_filter |-> None,
              filtered_flows |-> << >>, phase |-> "init"]
    /\ stack = << >>
    /\ lst = NoList
    /\ table = EmptyTable
    /\ det = NoDetail
    /\ term = 5
    /\ out = [bell |-> FALSE, clipboard |-> None]

\* filter_flows_by_content_type(flows, content_type) is called and returns
CallFilter ==
    /\ IsNone(call.result)
    /\ call' = [call EXCEPT
                   !.result = Some(filter_flows_by_content_type(call.flows, call.content_type))]
    /\ UNCHANGED << app, stack, lst, table, det, term, out >>

NextFilter == CallFilter

SpecFilter == InitFilter /\ [][NextFilter]_vars

\* ------------------------------------------ the command language at work
\* FlowViewerApp.__init__ in a terminal that keeps its height
InitCommands ==
    /\ \E flows \in Captures, f \in InitFilters :
          app = [all_flows |-> flows, content_type_filter |-> f,
                 filtered_flows |-> << >>, phase |-> "init"]
    /\ stack = << >>
    /\ lst = NoList
    /\ table = EmptyTable
    /\ det = NoDetail
    /\ term = 8
    /\ out = [bell |-> FALSE, clipboard |-> None]
    /\ call = NoCall

NextCommands ==
    \/ Mount
    \/ MoveDown \/ MoveUp
    \/ ListOpenCommand \/ ListCancelCommand
    \/ \E raw \in CommandLines : ListSubmit(raw)
    \/ RowSelected \/ GoBack
    \/ NextFlow \/ PreviousFlow
    \/ DetailOpenCommand
    \/ \E raw \in CommandLines : DetailSubmit(raw)

SpecCommands == InitCommands /\ [][NextCommands]_vars

\* ------------------------------------------------ the prompt being edited
\* texts the Input widget holds while the user edits it
PromptTexts == { << >>, << ":" >>, BogusLine, CpReqLine, SetJsLine }

\* the user edits the List screen's command Input (it has the focus while the
\* prompt is open)
ListType ==
    /\ ListActive
    /\ lst.command_active
    /\ \E value \in PromptTexts : lst' = [lst EXCEPT !.command_value = value]
    /\ out' = [out EXCEPT !.bell = FALSE]
    /\ UNCHANGED << app, stack, table, det, term, call >>

\* the user edits the Detail screen's command Input
DetailType ==
    /\ det.command_active
    /\ \E value \in PromptTexts : DetailKey([det EXCEPT !.command_value = value])

\* Enter in the List screen's Input: Input.Submitted carries the Input's value
ListSubmitTyped == ListSubmit(lst.command_value)

\* Enter in the Detail screen's Input
DetailSubmitTyped == DetailSubmit(det.command_value)

NextPrompt ==
    \/ Mount
    \/ MoveDown \/ MoveUp
    \/ ListOpenCommand \/ ListCancelCommand
    \/ ListType \/ ListSubmitTyped
    \/ RowSelected \/ GoBack
    \/ NextFlow \/ PreviousFlow
    \/ DetailOpenCommand
    \/ DetailType \/ DetailSubmitTyped

SpecPrompt == InitCommands /\ [][NextPrompt]_vars

\* ------------------------------------------------- the panels of Detail
\* the shapes of the flows whose Detail screens are opened: those of UiKinds
\* and a flow with neither a request nor a response
PanelKinds ==
    { UiKinds[i] : i \in 1..Len(UiKinds) } \cup { [request |-> None, response |-> None] }

\* FlowViewerApp.__init__ without a filter, in a terminal that keeps its height
InitPanels ==
    /\ \E flows \in CapturesOf(PanelKinds, MaxFlows) :
          app = [all_flows |-> flows, content_type_filter |-> None,
                 filtered_flows |-> << >>, phase |-> "init"]
    /\ stack = << >>
    /\ lst = NoList
    /\ table = EmptyTable
    /\ det = NoDetail
    /\ term = 8
    /\ out = [bell |-> FALSE, clipboard |-> None]
    /\ call = NoCall

NextPanels ==
    \/ Mount
    \/ MoveDown \/ MoveUp
    \/ RowSelected \/ GoBack
    \/ CycleDetailPanel \/ ShowRequestPanel \/ ShowResponsePanel
    \/ NextFlow \/ PreviousFlow
    \/ DetailOpenCommand
    \/ DetailSubmit(BogusLine)

SpecPanels == InitPanels /\ [][NextPanels]_vars

\* ------------------------------------------------- the table on its own
MaxRows == 6

\* the List screen mounted on a capture of n flows, no filter, in a terminal
\* of either height that can be resized
InitCursor ==
    /\ \E n \in 0..MaxRows :
          LET flows == MkFlows([i \in 1..n |->
                           [request |-> Some(ReqJson), response |-> Some(Resp200)]])
          IN  /\ app = [all_flows |-> flows, content_type_filter |-> None,
                        filtered_flows |-> flows, phase |-> "running"]
              /\ lst = update_list_status_bar(NewListScreen(flows, None))
              /\ table = populate_table(EmptyTable, flows)
    /\ stack = << "List" >>
    /\ det = NoDetail
    /\ term \in Heights
    /\ out = [bell |-> FALSE, clipboard |-> None]
    /\ call = NoCall

NextCursor ==
    \/ MoveDown \/ MoveUp \/ HalfPageDown \/ HalfPageUp
    \/ JumpTop \/ JumpBottom \/ JumpScreenTop \/ JumpScreenBottom
    \/ TableScrolled \/ Resize

SpecCursor == InitCursor /\ [][NextCursor]_vars

\* ================================================================ claims
\* two characters are the same letter up to case
SameLetter(a, b) ==
    \/ a = b
    \/ {a, b} \in {{"j", "J"}, {"s", "S"}, {"x", "X"}}

\* the request's Content-Type header value contains text, ignoring case
HeaderContains(flow, text) ==
    /\ Len(flow.request) = 1
    /\ Len(flow.request[1].ctype) = 1
    /\ LET hay == flow.request[1].ctype[1]
       IN  \E off \in 0..(Len(hay) - Len(text)) :
              \A k \in 1..Len(text) : SameLetter(hay[off + k], text[k])

\* result is the ordered subsequence of `flows` holding exactly the flows
\* whose header contains text: same elements, capture order, nothing else
IsSelection(result, flows, text) ==
    /\ Len(result) = Cardinality({i \in 1..Len(flows) : HeaderContains(flows[i], text)})
    /\ \A k \in 1..Len(result) :
          /\ result[k].id \in 1..Len(flows)
          /\ result[k] = flows[result[k].id]
          /\ HeaderContains(result[k], text)
    /\ \A k \in 1..(Len(result) - 1) : result[k].id < result[k + 1].id

\* what the filtered view of `flows` under an optional filter text should be
IsFilteredView(result, flows, text) ==
    IF Len(text) = 0 \/ Len(text[1]) = 0 THEN result = flows
    ELSE IsSelection(result, flows, text[1])

\* C1: filter_flows_by_content_type returns its input unchanged for an empty
\* or absent text, and otherwise exactly the ordered subsequence of the flows
\* whose request has a Content-Type header containing the text, ignoring case.
C1_FilterContract ==
    ~IsNone(call.result) => IsFilteredView(call.result[1], call.flows, call.content_type)

\* a call with an upper-case text that keeps some flows and drops a flow that
\* has no request
C1_Witness ==
    /\ ~IsNone(call.result)
    /\ call.content_type = Some(<< "J", "S" >>)
    /\ Len(call.result[1]) > 0
    /\ \E i \in 1..Len(call.flows) : IsNone(call.flows[i].request)

\* the value each `:set ctype` line of the model asks for
SetCases ==
    { [line |-> SetJsLine, value |-> Some(<< "j", "s" >>)],
      [line |-> SetQuotedXLine, value |-> Some(<< "X" >>)],
      [line |-> SetClearLine, value |-> None],
      [line |-> SetQuotedEmptyLine, value |-> None] }

\* C2: on the List screen, submitting `:set ctype <value>` (trimmed, one pair
\* of surrounding quotes stripped) makes <value> the active filter and the
\* filtered view exactly the flows of the full store whose request
\* Content-Type contains it, in capture order; an empty or empty-quoted value
\* clears the filter and restores the full store, whatever was active before.
C2_SetCtype ==
    [][\A c \in SetCases :
          ListSubmit(c.line) =>
              /\ app'.content_type_filter = c.value
              /\ IsFilteredView(app'.filtered_flows, app.all_flows, c.value)
              /\ IsNone(c.value) => app'.filtered_flows = app.all_flows]_vars

\* the quoted, padded line has installed X and the view is a proper, non-empty
\* part of the store
C2_Witness ==
    /\ app.phase = "running"
    /\ app.content_type_filter = Some(<< "X" >>)
    /\ lst.status_message = Some(Msg("Content-Type filter set to ", << "X" >>))
    /\ Len(app.filtered_flows) > 0
    /\ Len(app.filtered_flows) < Len(app.all_flows)

\* C3: at every event boundary after the List screen is mounted the filter
\* state is whole: the application's filtered view is the filter applied to
\* the full store, the List screen's flow list and filter copy equal the
\* application's, and the table has one row per flow of the filtered view.
C3_NoTornFilterState ==
    app.phase = "running" =>
        /\ IsFilteredView(app.filtered_flows, app.all_flows, app.content_type_filter)
        /\ lst.flows = app.filtered_flows
        /\ lst.content_type_filter = app.content_type_filter
        /\ Len(table.rows) = Len(app.filtered_flows)

\* a filter installed by a command, narrowing the view, seen from Detail
C3_Witness ==
    /\ DetailActive
    /\ app.content_type_filter = Some(<< "j", "s" >>)
    /\ Len(app.filtered_flows) < Len(app.all_flows)

\* C4: once mounted, the filter and the filtered view change only by a
\* `:set ctype` line submitted on the List screen; every other event leaves
\* them unchanged, and no event ever changes the full flow store.
C4_OnlySetCtypeChangesFilter ==
    [][/\ app'.all_flows = app.all_flows
       /\ (/\ app.phase = "running"
           /\ \/ app'.content_type_filter # app.content_type_filter
              \/ app'.filtered_flows # app.filtered_flows)
          => \E line \in SetCtypeLines : ListSubmit(line)]_vars

\* `:set ctype js` typed on the Detail screen was rejected as unknown and the
\* filter is still the one given at start
C4_Witness ==
    /\ DetailActive
    /\ det.status_message = Some(Msg("Unknown command: ", SetJsLine))
    /\ app.content_type_filter = Some(<< "J", "S" >>)
    /\ Len(app.filtered_flows) > 0

CursorInRange == Len(table.rows) > 0 => (0 <= table.cursor_row /\ table.cursor_row < Len(table.rows))

\* C5: for every rowCount > 0, after any sequence of j/k moves and half-page
\* moves under any viewport height, 0 <= cursorRow < rowCount; with an empty
\* table these calls change nothing.
C5_CursorStaysInRange ==
    /\ []CursorInRange
    /\ [][(Len(table.rows) = 0 /\ (MoveDown \/ MoveUp \/ HalfPageDown \/ HalfPageUp))
              => (table' = table /\ lst' = lst /\ app' = app)]_vars

\* the cursor has been moved to the last of at least four rows under the tall
\* terminal, where a half page is two rows
C5_Witness ==
    /\ Len(table.rows) >= 4
    /\ term = 8
    /\ table.cursor_row = Len(table.rows) - 1

C7_SelectionUsesCurrentView ==
    [][RowSelected =>
          /\ IsFilteredView(app.filtered_flows, app.all_flows, app.content_type_filter)
          /\ stack' = << "List", "Detail" >>
          /\ det'.flow = Some(app.filtered_flows[table.cursor_row + 1])
          /\ det'.position = table.cursor_row
          /\ det'.total = Len(app.filtered_flows)]_vars

\* under a filter set by command, the Detail screen shows at position 0 the
\* flow that is second in the capture
C7_Witness ==
    /\ DetailActive
    /\ app.content_type_filter = Some(<< "j", "s" >>)
    /\ det.position = 0
    /\ det.flow[1].id = 2
    /\ det.total < Len(app.all_flows)

\* C8: while the application runs, the screen stack is [List] or
\* [List, Detail]; the stack grows only by a row selection on List, shrinks
\* only by Detail's back action, and next/previous never change it.
C8_StackShape ==
    /\ [](app.phase = "running" => stack \in {<< "List" >>, << "List", "Detail" >>})
    /\ [][(app.phase = "running" /\ app'.phase = "running" /\ stack' # stack)
              => \/ RowSelected /\ stack = << "List" >> /\ stack' = << "List", "Detail" >>
                 \/ GoBack /\ stack = << "List", "Detail" >> /\ stack' = << "List" >>]_vars
    /\ [][((NextFlow \/ PreviousFlow) /\ app'.phase = "running") => stack' = stack]_vars
    /\ [][(ListActive /\ ListCancelCommand) => stack' = stack]_vars

\* a command has run on a Detail screen that sits on top of the List screen
C8_Witness ==
    /\ stack = << "List", "Detail" >>
    /\ app.phase = "running"
    /\ ~IsNone(det.status_message)
    /\ det.active_panel = "response"

\* C9: after a next/previous navigation in Detail that reached position p,
\* the List screen's cursor row is p.
C9_ListCursorFollowsDetail ==
    [][\A offset \in {1, -1} :
          (/\ IF offset = 1 THEN NextFlow ELSE PreviousFlow
           /\ det.position + offset \in 0..(Len(app.filtered_flows) - 1))
          => /\ app'.phase = "running"
             /\ det'.position = det.position + offset
             /\ table'.cursor_row = det'.position]_vars

\* C10: Detail next/previous with the new position inside the current
\* filtered view completes in the same Detail screen: flow, position and
\* total are those of the live view at the new position, and the displayed
\* request/response content and status bar are refreshed to that flow.
C10_NavigateCompletes ==
    [][\A offset \in {1, -1} :
          (/\ IF offset = 1 THEN NextFlow ELSE PreviousFlow
           /\ det.position + offset \in 0..(Len(app.filtered_flows) - 1))
          => /\ stack' = stack
             /\ app'.phase = "running"
             /\ det'.flow = Some(app.filtered_flows[det.position + offset + 1])
             /\ det'.position = det.position + offset
             /\ det'.total = Len(app.filtered_flows)
             /\ det'.request_static = build_request_detail(det'.flow[1])
             /\ det'.response_static = build_response_detail(det'.flow[1])
             /\ det'.status_text = << det'.position + 1, det'.total, None >>]_vars

\* C11: Detail next at the last position, previous at position 0, and either
\* one on an empty view ring the bell and change nothing else: the Detail
\* screen (flow, position, total, panel), the List cursor and the stack stay.
C11_OutOfRangeIsBellOnly ==
    [][\A offset \in {1, -1} :
          (/\ IF offset = 1 THEN NextFlow ELSE PreviousFlow
           /\ \/ Len(app.filtered_flows) = 0
              \/ det.position + offset \notin 0..(Len(app.filtered_flows) - 1))
          => /\ out'.bell
             /\ det' = det
             /\ table' = table
             /\ lst' = lst
             /\ stack' = stack
             /\ app' = app]_vars

\* next was pressed on the last of two flows: the bell rang, no message shown
C11_Witness ==
    /\ DetailActive
    /\ out.bell
    /\ IsNone(det.status_message)
    /\ Len(app.filtered_flows) = 2
    /\ det.position = 1

\* C12: selecting a row, every event handled while the Detail screen is on
\* top, and back leave the List screen as it was, as long as the application
\* keeps running: table (cursor row and column, rows), the List's flows and
\* filter, the application's filtered view and filter are unchanged, so after
\* back they are what they were before the row was selected.
C12_DetailLeavesListAlone ==
    [][((RowSelected \/ DetailActive) /\ app'.phase = "running")
          => /\ table' = table
             /\ lst' = lst
             /\ app'.filtered_flows = app.filtered_flows
             /\ app'.content_type_filter = app.content_type_filter]_vars

\* back on the List screen after a Detail screen copied a response body (the
\* List screen is given no line that copies one), with the cursor on the
\* second row of a filtered view
C12_Witness ==
    /\ ListActive
    /\ out.clipboard = Some(BodyB)
    /\ table.cursor_row = 1
    /\ Truthy(app.content_type_filter)

\* C13: the command prompt of either screen: a closed prompt has an empty
\* buffer; the open action on an open prompt changes nothing on the screen,
\* on a closed prompt it opens it with the buffer ":"; cancel and submit leave
\* the prompt closed with an empty buffer, the submitted command having been
\* handled on the screen as it is with the prompt already closed.
C13_PromptLifecycle ==
    /\ [](/\ ~lst.command_active => lst.command_value = << >>
          /\ ~det.command_active => det.command_value = << >>)
    /\ [][ListOpenCommand
             => IF lst.command_active THEN lst' = lst
                ELSE lst' = [lst EXCEPT !.command_active = TRUE,
                                        !.command_value = << ":" >>]]_vars
    /\ [][DetailOpenCommand
             => IF det.command_active THEN det' = det
                ELSE det' = [det EXCEPT !.command_active = TRUE,
                                        !.command_value = << ":" >>]]_vars
    /\ [][(ListCancelCommand \/ ListSubmitTyped)
             => ~lst'.command_active /\ lst'.command_value = << >>]_vars
    /\ [][((GoBack /\ det.command_active) \/ DetailSubmitTyped)
             => ~det'.command_active /\ det'.command_value = << >>]_vars
    /\ [][ListSubmitTyped
             => lst' = list_handle_command(
                           [Bundle EXCEPT !.lst.command_active = FALSE,
                                          !.lst.command_value = << >>,
                                          !.out.bell = FALSE], lst.command_value).lst]_vars

\* a command was submitted on the List screen, and the Detail screen's prompt
\* is open with an edited buffer
C13_Witness ==
    /\ DetailActive
    /\ det.command_active
    /\ det.command_value = CpReqLine
    /\ ~IsNone(lst.status_message)

\* C14: Escape with the prompt open closes the prompt and nothing else: no
\* command is dispatched (status message, clipboard, filter, table as
\* before, no bell) and the stack is unchanged; Detail's go-back pops the
\* screen only when the prompt is closed.
C14_EscapeCancelsFirst ==
    /\ [][(ListCancelCommand /\ lst.command_active)
             => /\ lst' = [lst EXCEPT !.command_active = FALSE, !.command_value = << >>]
                /\ stack' = stack /\ app' = app /\ table' = table /\ det' = det
                /\ out' = [out EXCEPT !.bell = FALSE]]_vars
    /\ [][GoBack
             => IF det.command_active
                THEN /\ det' = [det EXCEPT !.command_active = FALSE,
                                           !.command_value = << >>]
                     /\ stack' = stack /\ app' = app /\ table' = table /\ lst' = lst
                     /\ out' = [out EXCEPT !.bell = FALSE]
                ELSE /\ stack' = << "List" >>
                     /\ app' = app /\ table' = table /\ lst' = lst]_vars

\* a Detail screen whose prompt is closed again without a bell while the
\* message of an earlier unknown command (which rang it) still shows: the
\* prompt was opened after that command and closed by Escape
C14_Witness ==
    /\ DetailActive
    /\ ~det.command_active
    /\ ~out.bell
    /\ ~IsNone(det.status_message)
    /\ det.status_message[1].text = "Unknown command: "

\* lines whose command name a screen does not recognise, each with the text
\* that was entered, trimmed of surrounding whitespace
UnknownOnList == { [line |-> BogusLine, echo |-> << ":", "z", "z" >>] }

UnknownOnDetail ==
    UnknownOnList \cup
    { [line |-> SetJsLine,
       echo |-> << ":", "s", "e", "t", " ", "c", "t", "y", "p", "e", " ", "j", "s" >>],
      [line |-> SetOptionZLine, echo |-> << ":", "s", "e", "t", " ", "z", " ", "j" >>] }

\* C15: a submitted line whose command name the active screen does not
\* recognise (on Detail also `set`) rings the bell and sets the status message
\* to "Unknown command: " followed by the entered text, colon included,
\* trimmed; table, cursor, filter, filtered view, clipboard and stack stay.
C15_UnknownCommand ==
    /\ [][\A c \in UnknownOnList :
             ListSubmit(c.line)
             => /\ lst'.status_message = Some(Msg("Unknown command: ", c.echo))
                /\ lst'.status_text[4] = lst'.status_message
                /\ out'.bell
                /\ out'.clipboard = out.clipboard
                /\ table' = table /\ app' = app /\ stack' = stack
                /\ lst'.flows = lst.flows
                /\ lst'.content_type_filter = lst.content_type_filter]_vars
    /\ [][\A c \in UnknownOnDetail :
             DetailSubmit(c.line)
             => /\ det'.status_message = Some(Msg("Unknown command: ", c.echo))
                /\ det'.status_text[3] = det'.status_message
                /\ out'.bell
                /\ out'.clipboard = out.clipboard
                /\ table' = table /\ app' = app /\ stack' = stack /\ lst' = lst
                /\ det'.flow = det.flow /\ det'.position = det.position
                /\ det'.total = det.total /\ det'.active_panel = det.active_panel]_vars

\* `:set ctype js` was just refused on a Detail screen opened from a List
\* screen that had refused ` :zz `
C15_Witness ==
    /\ DetailActive
    /\ out.bell
    /\ det.status_message = Some(Msg("Unknown command: ", Strip(SetJsLine)))
    /\ lst.status_message = Some(Msg("Unknown command: ", << ":", "z", "z" >>))

\* copy lines with the section each one targets on the screen that accepts it
CopyCasesDetail ==
    { [line |-> CpReqLine, section |-> "request"],
      [line |-> CpRequestLine, section |-> "request"],
      [line |-> CpResLine, section |-> "response"],
      [line |-> CpRespLine, section |-> "response"],
      [line |-> CpResponseLine, section |-> "response"] }

CopyCasesList == { c \in CopyCasesDetail : c.line # CpResLine }

\* the targeted section of a flow, absent or present
SectionOf(flow, section) == IF section = "request" THEN flow.request ELSE flow.response

NothingToCopyMessages ==
    { Some(Msg("No flow selected to copy", << >>)),
      Some(Msg("Selected flow has no request to copy", << >>)),
      Some(Msg("Selected flow has no response to copy", << >>)) }

\* C16: a copy command with nothing to copy (no row on List, or the flow
\* lacks the targeted section) sets a status message, rings the bell and
\* leaves the clipboard; otherwise the clipboard receives the body of that
\* section of the flow at the List cursor row of the current filtered view
\* (List) or of the Detail screen's flow (Detail).
C16_CopyOnlyWhatExists ==
    /\ [][\A c \in CopyCasesList :
             ListSubmit(c.line)
             => IF \/ Len(table.rows) = 0
                   \/ IsNone(SectionOf(app.filtered_flows[table.cursor_row + 1], c.section))
                THEN /\ lst'.status_message \in NothingToCopyMessages
                     /\ out'.bell
                     /\ out'.clipboard = out.clipboard
                ELSE LET part == SectionOf(app.filtered_flows[table.cursor_row + 1],
                                           c.section)[1]
                     IN  out'.clipboard = Some(get_body_text(part.text, part.raw))]_vars
    /\ [][\A c \in CopyCasesDetail :
             DetailSubmit(c.line)
             => IF IsNone(SectionOf(det.flow[1], c.section))
                THEN /\ det'.status_message \in NothingToCopyMessages
                     /\ out'.bell
                     /\ out'.clipboard = out.clipboard
                ELSE LET part == SectionOf(det.flow[1], c.section)[1]
                     IN  out'.clipboard = Some(get_body_text(part.text, part.raw))]_vars

\* the request body of the first row was copied, then copying the response
\* of the second row, which has none, rang the bell and left the clipboard
C16_Witness ==
    /\ ListActive
    /\ table.cursor_row = 1
    /\ out.bell
    /\ lst.status_message = Some(Msg("Selected flow has no response to copy", << >>))
    /\ out.clipboard = Some(BodyA)

\* C17: on both screens each of `cp response`, `cp resp`, `cp res` copies the
\* response body and each of `cp request`, `cp req` the request body, of a
\* flow that has the section.
C17_SameAliasesOnBothScreens ==
    /\ [][\A c \in CopyCasesDetail :
             (/\ ListSubmit(c.line)
              /\ Len(table.rows) > 0
              /\ ~IsNone(SectionOf(lst.flows[table.cursor_row + 1], c.section)))
             => LET part == SectionOf(lst.flows[table.cursor_row + 1], c.section)[1]
                IN  out'.clipboard = Some(get_body_text(part.text, part.raw))]_vars
    /\ [][\A c \in CopyCasesDetail :
             (/\ DetailSubmit(c.line)
              /\ ~IsNone(SectionOf(det.flow[1], c.section)))
             => LET part == SectionOf(det.flow[1], c.section)[1]
                IN  out'.clipboard = Some(get_body_text(part.text, part.raw))]_vars

\* lines that are an error on either screen: unknown command, malformed
\* `cp` arguments; on the List screen also malformed `set` arguments
ErrorLinesDetail ==
    { BogusLine, << ":" >> \o wCp \o << " " >>, << ":" >> \o wCp \o << " ", "Z", "z" >> }

ErrorLinesList == ErrorLinesDetail \cup MalformedLines

\* C18: every recoverable error (unknown command, malformed `set`/`cp`
\* arguments, copy with nothing to copy, out-of-range Detail navigation) ends
\* with a bell and a message in the status bar, the application running and
\* the stack unchanged.
C18_ErrorsGiveMessageAndBell ==
    /\ [][\A line \in ErrorLinesList :
             ListSubmit(line)
             => /\ out'.bell /\ ~IsNone(lst'.status_message)
                /\ lst'.status_text[4] = lst'.status_message
                /\ app'.phase = "running" /\ stack' = stack]_vars
    /\ [][\A c \in CopyCasesList :
             (/\ ListSubmit(c.line)
              /\ \/ Len(table.rows) = 0
                 \/ IsNone(SectionOf(lst.flows[table.cursor_row + 1], c.section)))
             => /\ out'.bell /\ ~IsNone(lst'.status_message)
                /\ app'.phase = "running" /\ stack' = stack]_vars
    /\ [][\A line \in ErrorLinesDetail :
             DetailSubmit(line)
             => /\ out'.bell /\ ~IsNone(det'.status_message)
                /\ det'.status_text[3] = det'.status_message
                /\ app'.phase = "running" /\ stack' = stack]_vars
    /\ [][\A c \in CopyCasesDetail :
             (DetailSubmit(c.line) /\ IsNone(SectionOf(det.flow[1], c.section)))
             => /\ out'.bell /\ ~IsNone(det'.status_message)
                /\ app'.phase = "running" /\ stack' = stack]_vars
    /\ [][\A offset \in {1, -1} :
             (/\ IF offset = 1 THEN NextFlow ELSE PreviousFlow
              /\ det.position + offset \notin 0..(Len(app.filtered_flows) - 1))
             => /\ out'.bell /\ ~IsNone(det'.status_message)
                /\ app'.phase = "running" /\ stack' = stack]_vars

\* `set` lines whose option is not ctype, each with the option as entered
UnknownOptionCases ==
    { [line |-> SetOptionZLine, option |-> << "z" >>],
      [line |-> SetOptionCtypeUpperLine, option |-> << "C", "t", "y", "p", "e" >>] }

\* C19: `:set <option> ...` with an option other than ctype sets the status
\* message "Unknown option: <option>", rings the bell, and leaves the filter,
\* the filtered view, the table rows and the cursor unchanged.
C19_UnknownOption ==
    [][\A c \in UnknownOptionCases :
          ListSubmit(c.line)
          => /\ lst'.status_message = Some(Msg("Unknown option: ", c.option))
             /\ lst'.status_text[4] = lst'.status_message
             /\ out'.bell
             /\ out'.clipboard = out.clipboard
             /\ app' = app /\ table' = table /\ stack' = stack
             /\ lst'.flows = lst.flows
             /\ lst'.content_type_filter = lst.content_type_filter]_vars

\* `set Ctype  js` was just refused on a List screen whose filter hides one
\* of two flows
C19_Witness ==
    /\ ListActive
    /\ out.bell
    /\ lst.status_message = Some(Msg("Unknown option: ", << "C", "t", "y", "p", "e" >>))
    /\ Truthy(app.content_type_filter)
    /\ Len(app.all_flows) = 2
    /\ Len(table.rows) = 1

NoCommandEntered == Some(Msg("No command entered", << >>))

\* C20: submitting an empty command (nothing, a colon alone, a colon followed
\* by whitespace, or whitespace alone) sets the status message "No command
\* entered" and changes nothing else: no bell, and filter, filtered view,
\* table, cursor, clipboard and stack are as before.
C20_EmptyCommand ==
    /\ [][\A line \in EmptyLines :
             ListSubmit(line)
             => /\ lst' = [lst EXCEPT !.command_active = FALSE,
                                      !.command_value = << >>,
                                      !.status_message = NoCommandEntered,
                                      !.status_text[4] = NoCommandEntered]
                /\ out' = [out EXCEPT !.bell = FALSE]
                /\ app' = app /\ table' = table /\ stack' = stack /\ det' = det]_vars
    /\ [][\A line \in EmptyLines :
             DetailSubmit(line)
             => /\ det' = [det EXCEPT !.command_active = FALSE,
                                      !.command_value = << >>,
                                      !.status_message = NoCommandEntered,
                                      !.status_text[3] = NoCommandEntered]
                /\ out' = [out EXCEPT !.bell = FALSE]
                /\ app' = app /\ table' = table /\ stack' = stack /\ lst' = lst]_vars

\* an empty command was submitted on the List screen and then on the Detail
\* screen opened from it, with a body on the clipboard
C20_Witness ==
    /\ DetailActive
    /\ ~det.command_active
    /\ det.status_message = NoCommandEntered
    /\ lst.status_message = NoCommandEntered
    /\ ~IsNone(out.clipboard)

\* C21: a j/k move rings the bell when the table is empty or the clamp cuts
\* the move short, and otherwise moves the cursor by the offset without a bell.
C21_MoveSignalsNoMovement ==
    [][\A offset \in {1, -1} :
          (IF offset = 1 THEN MoveDown ELSE MoveUp)
          => IF \/ Len(table.rows) = 0
                \/ table.cursor_row + offset \notin 0..(Len(table.rows) - 1)
             THEN out'.bell
             ELSE table'.cursor_row = table.cursor_row + offset /\ ~out'.bell]_vars

\* the rows a half page is: max(1, floor(min(rowCount, viewport) / 2))
HalfPageRows == Max(1, Min(Len(table.rows), Max(1, term - 4)) \div 2)

\* C22: with rows in the table, half-page down/up moves the cursor by exactly
\* max(1, floor(visibleRows / 2)) rows in its direction, clamped to the rows,
\* visibleRows being min(rowCount, viewport height); so it moves by at least
\* one row whenever the neighbouring row exists.
PageTarget(direction) ==
    LET target == table.cursor_row + direction * HalfPageRows
    IN  IF target < 0 THEN 0
        ELSE IF target > Len(table.rows) - 1 THEN Len(table.rows) - 1
        ELSE target

C22_PageMove ==
    /\ [](Len(table.rows) > 0
            => \A direction \in {1, -1} :
                  LET moved == page_move(table, term, direction, 2)
                  IN  /\ moved.cursor_row = PageTarget(direction)
                      /\ (table.cursor_row + direction \in 0..(Len(table.rows) - 1))
                            => moved.cursor_row # table.cursor_row)
    /\ [][(HalfPageDown /\ Len(table.rows) > 0)
             => table'.cursor_row = PageTarget(1)]_vars
    /\ [][(HalfPageUp /\ Len(table.rows) > 0)
             => table'.cursor_row = PageTarget(-1)]_vars

\* the cursor is on the second row of at least three under the terminal whose
\* viewport shows one row, where a half page is one row
C22_Witness ==
    /\ term = 5
    /\ Len(table.rows) >= 3
    /\ table.cursor_row = 1

\* the window of rows the List screen takes as visible
TopRow == IF table.scroll_y < 0 THEN 0
          ELSE IF table.scroll_y > Len(table.rows) - 1 THEN Len(table.rows) - 1
          ELSE table.scroll_y

BottomRow ==
    LET visibleRows == Min(Len(table.rows), Max(1, term - 4))
    IN  Min(Len(table.rows) - 1, TopRow + visibleRows - 1)

\* C23: with rows in the table, jump-screen-top puts the cursor on the top
\* row and jump-screen-bottom on the bottom row of the window visible before
\* the call, where 0 <= top <= bottom <= rowCount - 1 and the window is no
\* taller than the visible rows; with no rows both change nothing.
C23_ScreenJumpsStayInWindow ==
    /\ [](Len(table.rows) > 0
            => /\ 0 <= TopRow /\ TopRow <= BottomRow /\ BottomRow <= Len(table.rows) - 1
               /\ BottomRow - TopRow <= Min(Len(table.rows), Max(1, term - 4)) - 1)
    /\ [][JumpScreenTop
             => IF Len(table.rows) = 0 THEN table' = table
                ELSE table'.cursor_row = TopRow]_vars
    /\ [][JumpScreenBottom
             => IF Len(table.rows) = 0 THEN table' = table
                ELSE table'.cursor_row = BottomRow]_vars

\* the cursor is on the fifth row while the first row is the top of the
\* window of the tall terminal, which shows four rows
C23_Witness ==
    /\ term = 8
    /\ Len(table.rows) >= 5
    /\ table.cursor_row = 4
    /\ table.scroll_y = 0

\* C24: a newly pushed Detail screen shows the request panel if its flow has
\* a request, else the response panel if it has a response, else the request
\* panel.
C24_InitialPanel ==
    [][(RowSelected /\ stack' # stack)
          => LET flow == lst.flows[table.cursor_row + 1]
             IN  /\ det'.flow = Some(flow)
                 /\ det'.active_panel = IF ~IsNone(flow.request) THEN "request"
                                        ELSE IF ~IsNone(flow.response) THEN "response"
                                        ELSE "request"]_vars

\* a Detail screen was opened on the second flow, which has neither a request
\* nor a response, and nothing was done on it yet
C24_Witness ==
    /\ DetailActive
    /\ det.position = 1
    /\ IsNone(det.flow[1].request) /\ IsNone(det.flow[1].response)
    /\ det.active_panel = "request"
    /\ IsNone(det.status_message) /\ ~det.command_active /\ ~out.bell

OtherPanel(panel) == IF panel = "request" THEN "response" ELSE "request"

\* C25: on a Detail screen the active panel is request or response and
\* exactly the active panel's container is displayed and focused; showing
\* the panel that is already active changes nothing on the screen; cycle
\* switches to the other panel, and two cycles in a row restore the screen.
C25_PanelSwitching ==
    /\ [](DetailActive
            => /\ det.active_panel \in {"request", "response"}
               /\ det.request_display = IF det.active_panel = "request" THEN "block" ELSE "none"
               /\ det.response_display = IF det.active_panel = "response" THEN "block" ELSE "none"
               /\ det.focus = IF det.active_panel = "request" THEN "request-container"
                              ELSE "response-container"
               /\ set_active_panel(det, det.active_panel) = det
               /\ LET once == set_active_panel(det, OtherPanel(det.active_panel))
                  IN  /\ once.active_panel = OtherPanel(det.active_panel)
                      /\ set_active_panel(once, OtherPanel(once.active_panel)) = det)
    /\ [][CycleDetailPanel => det'.active_panel = OtherPanel(det.active_panel)]_vars
    /\ [][ShowRequestPanel
             => IF det.active_panel = "request" THEN det' = det
                ELSE det'.active_panel = "request"]_vars
    /\ [][ShowResponsePanel
             => IF det.active_panel = "response" THEN det' = det
                ELSE det'.active_panel = "response"]_vars

\* the response panel is shown for a flow that has a request, whose Detail
\* screen opened on the request panel
C25_Witness ==
    /\ DetailActive
    /\ ~IsNone(det.flow[1].request)
    /\ det.active_panel = "response"
    /\ det.response_display = "block" /\ det.request_display = "none"

\* C26: a panel switch on a Detail screen changes the status bar text, which
\* reflects the active panel besides the position and the total.
C26_StatusBarShowsPanel ==
    [][((CycleDetailPanel \/ ShowRequestPanel \/ ShowResponsePanel)
           /\ det'.active_panel # det.active_panel)
          => /\ det'.status_text # det.status_text
             /\ det'.status_text[1] = det'.position + 1
             /\ det'.status_text[2] = det'.total]_vars

\* C27: filtering a filtered sequence again with the same text returns it
\* unchanged, for every capture and every filter text; and submitting a
\* `:set ctype` line again right after it was submitted leaves the filter,
\* the filtered view, the table rows and the cursor as the first submission
\* left them.
C27_FilterIdempotent ==
    /\ [](app.phase = "init"
            => \A t \in FilterTexts :
                  LET once == filter_flows_by_content_type(app.all_flows, t)
                  IN  filter_flows_by_content_type(once, t) = once)
    /\ [][\A line \in SetCtypeLines :
             ListSubmit(line)
             => LET once == [app |-> app', stack |-> stack', lst |-> lst',
                             table |-> table', det |-> det', out |-> out']
                    again == list_handle_command(once, line)
                IN  /\ again.app.content_type_filter = app'.content_type_filter
                    /\ again.app.filtered_flows = app'.filtered_flows
                    /\ again.lst.flows = lst'.flows
                    /\ again.lst.content_type_filter = lst'.content_type_filter
                    /\ again.table.rows = table'.rows
                    /\ again.table.cursor_row = table'.cursor_row
                    /\ again.table.cursor_column = table'.cursor_column]_vars

\* `:set ctype js` was submitted on a capture of two flows and the filtered
\* view keeps one of them
C27_Witness ==
    /\ ListActive
    /\ app.content_type_filter = Some(<< "j", "s" >>)
    /\ lst.status_message = Some(Msg("Content-Type filter set to ", << "j", "s" >>))
    /\ Len(app.all_flows) = 2
    /\ Len(app.filtered_flows) = 1

\* a Detail screen agrees with a filtered view: its position is inside it,
\* its total is the view's length, its flow is the view's element at the
\* position, and the displayed content and status bar are those of that flow
DetailConsistent(d, view) ==
    /\ 0 <= d.position /\ d.position < d.total
    /\ d.total = Len(view)
    /\ d.flow = Some(view[d.position + 1])
    /\ d.request_static = build_request_detail(d.flow[1])
    /\ d.response_static = build_response_detail(d.flow[1])
    /\ d.status_text = << d.position + 1, d.total, d.status_message >>

\* C28: a Detail screen on the stack always agrees with the application's
\* current filtered view, and a next/previous step leaves it so: the fields
\* it writes are never left half-updated.
C28_DetailAgreesWithView ==
    /\ [](DetailActive => DetailConsistent(det, app.filtered_flows))
    /\ [](DetailActive
            => \A offset \in {1, -1} :
                  LET after == navigate_flow([Bundle EXCEPT !.out.bell = FALSE], offset)
                  IN  DetailConsistent(after.det, after.app.filtered_flows))

====
